---------------------------- MODULE Spec2Model ----------------------------
(***************************************************************************)
(* A model of the prime stressor, src/stress-prime.c: the worker           *)
(* stress_prime() as a sequence of steps (one per statement a signal can   *)
(* separate), the SIGALRM handler stress_prime_alarm_handler() as an       *)
(* atomic step that can interleave with any of them, and the wall clock.   *)
(***************************************************************************)
EXTENDS Integers, Sequences, FiniteSets, TLC

(***************************************************************************)
(* Program constants.                                                      *)
(***************************************************************************)
STRESS_PRIME_METHOD_FACTORIAL == 0
STRESS_PRIME_METHOD_INC == 1
STRESS_PRIME_METHOD_PWR2 == 2
STRESS_PRIME_METHOD_PWR10 == 3
STRESS_PRIME_PROGRESS_INC_SECS == 60

(***************************************************************************)
(* Bounds of the model.                                                    *)
(***************************************************************************)
\* the largest operation budget (--prime-ops N) a run is given
MaxOps == 2
\* the number of SIGALRM deliveries to the stressor's handler in one run
MaxSignals == 2
\* the clock stops advancing at this time
MaxTime == 135
\* the largest operation budget of the runs without signals
MaxGrowthOps == 5
\* the instance indices of the workers
Instances == {0, 1}
\* the amounts by which the clock advances between two steps
TickSteps == {60, 75}

Methods == {STRESS_PRIME_METHOD_FACTORIAL, STRESS_PRIME_METHOD_INC,
            STRESS_PRIME_METHOD_PWR2, STRESS_PRIME_METHOD_PWR10}

VARIABLES
    pc,               \* the worker's position in stress_prime()
    opt_method,       \* the "prime-method" setting
    opt_progress,     \* the "prime-progress" setting
    instance,         \* args->instance
    max_ops,          \* args->max_ops
    bogo,             \* the bogo-op counter of args
    prime_method, prime_progress,
    start, value, factorial,
    duration, digits, t_progress_secs, t1, t2, ops, rate,
    jumped,           \* static bool jumped
    count,            \* static int count of the handler
    jmp_set,          \* jmpbuf holds a context saved by sigsetjmp
    handler_installed,
    continue_flag,    \* the process-wide continue flag
    now,              \* stress_time_now()
    ret,              \* the value stress_prime() returned
    progress_log,     \* the progress lines logged (line 172)
    summary_log,      \* the summary lines logged (line 187)
    metrics_log,      \* the rates handed to stress_metrics_set (line 191)
    released,         \* the calls of mpz_clears started
    hist              \* history: the handler's runs, the searches completed,
                      \* the time passed inside searches, the threshold's
                      \* advances

vars == <<pc, opt_method, opt_progress, instance, max_ops, bogo,
          prime_method, prime_progress, start, value, factorial,
          duration, digits, t_progress_secs, t1, t2, ops, rate,
          jumped, count, jmp_set, handler_installed, continue_flag, now,
          ret, progress_log, summary_log, metrics_log, released, hist>>

\* what one step of the worker leaves alone, by group
settings == <<opt_method, opt_progress, instance, max_ops>>
mpzs == <<start, value, factorial>>
timing == <<duration, t_progress_secs, t1, t2>>
sigstate == <<count, jmp_set, handler_installed, continue_flag>>
logs == <<progress_log, summary_log, metrics_log>>

(***************************************************************************)
(* The arithmetic backend, by what the calls compute.                      *)
(***************************************************************************)
IsPrime(n) ==
    /\ n >= 2
    /\ \A d \in 2..n : (d * d <= n) => (n % d # 0)

RECURSIVE mpz_nextprime_NotStrict(_)
\* mutant of line 147: the smallest prime greater than or equal to n
mpz_nextprime_NotStrict(n) ==
    IF IsPrime(n) THEN n ELSE mpz_nextprime_NotStrict(n + 1)

RECURSIVE mpz_nextprime(_)
\* the smallest prime strictly greater than n
mpz_nextprime(n) ==
    IF IsPrime(n + 1) THEN n + 1 ELSE mpz_nextprime(n + 1)

RECURSIVE mpz_sizeinbase10(_)
\* the number of decimal digits of n; 1 for n = 0
mpz_sizeinbase10(n) ==
    IF n < 10 THEN 1 ELSE 1 + mpz_sizeinbase10(n \div 10)

\* the harness's predicate: the flag, and the operation budget when one is set
stress_continue ==
    /\ continue_flag
    /\ (max_ops = 0 \/ bogo < max_ops)

(***************************************************************************)
(* The initial state: stress_prime() is entered, its initialised locals    *)
(* hold their initial values, the harness's counter is 0 and its flag set. *)
(***************************************************************************)
Init ==
    /\ pc = "setup"
    /\ opt_method \in Methods \cup {-1}
    /\ opt_progress \in BOOLEAN
    /\ instance \in Instances
    /\ max_ops \in 1..MaxOps
    /\ bogo = 0
    /\ prime_method = STRESS_PRIME_METHOD_INC
    /\ prime_progress = FALSE
    /\ start = 0 /\ value = 0 /\ factorial = 0
    /\ duration = 0
    /\ digits = 1
    /\ t_progress_secs = 0 /\ t1 = 0 /\ t2 = 0 /\ ops = 0
    /\ rate = [num |-> 0, den |-> 1]
    /\ jumped = FALSE
    /\ count = 0
    /\ jmp_set = FALSE
    /\ handler_installed = FALSE
    /\ continue_flag = TRUE
    /\ now = 0
    /\ ret = "none"
    /\ progress_log = <<>>
    /\ summary_log = <<>>
    /\ metrics_log = <<>>
    /\ released = 0
    /\ hist = [signals |-> <<>>, searches |-> 0, cleared |-> 0, stale |-> FALSE,
               search_time |-> 0, fired |-> 0]


(***************************************************************************)
(* Helpers of the steps.                                                   *)
(***************************************************************************)
\* mutant of lines 124-125: the instance test left out
ProgressEnabled_NoInstanceTest(opt, inst) ==
    opt

\* lines 119-125: the setting, cleared on every instance but the first
ProgressEnabled(opt, inst) ==
    IF inst > 0 THEN FALSE ELSE opt

\* lines 118 and 115: the setting when it is set, the initial value otherwise
MethodSelected(opt, initial) ==
    IF opt = -1 THEN initial ELSE opt

\* mutant of line 154: the product stored in factorial, start left as it was
Growth_FactorialWrongDest(m, s, v, f) ==
    CASE m = STRESS_PRIME_METHOD_INC -> [start |-> v + 2, factorial |-> f]
      [] m = STRESS_PRIME_METHOD_PWR2 -> [start |-> s * 2, factorial |-> f]
      [] m = STRESS_PRIME_METHOD_PWR10 -> [start |-> s * 10, factorial |-> f]
      [] OTHER -> [start |-> s, factorial |-> (s * f) + 1]

\* mutant of line 158: 2 added to start, not to value
Growth_IncFromStart(m, s, v, f) ==
    CASE m = STRESS_PRIME_METHOD_INC -> [start |-> s + 2, factorial |-> f]
      [] m = STRESS_PRIME_METHOD_PWR2 -> [start |-> s * 2, factorial |-> f]
      [] m = STRESS_PRIME_METHOD_PWR10 -> [start |-> s * 10, factorial |-> f]
      [] OTHER -> [start |-> s * f, factorial |-> f + 1]

\* mutant of line 164: the multiplier of line 161
Growth_Pwr10ByTwo(m, s, v, f) ==
    CASE m = STRESS_PRIME_METHOD_INC -> [start |-> v + 2, factorial |-> f]
      [] m = STRESS_PRIME_METHOD_PWR2 -> [start |-> s * 2, factorial |-> f]
      [] m = STRESS_PRIME_METHOD_PWR10 -> [start |-> s * 2, factorial |-> f]
      [] OTHER -> [start |-> s * f, factorial |-> f + 1]

\* mutant of lines 154-155: the multiplier incremented before the product
Growth_FactorialIncFirst(m, s, v, f) ==
    CASE m = STRESS_PRIME_METHOD_INC -> [start |-> v + 2, factorial |-> f]
      [] m = STRESS_PRIME_METHOD_PWR2 -> [start |-> s * 2, factorial |-> f]
      [] m = STRESS_PRIME_METHOD_PWR10 -> [start |-> s * 10, factorial |-> f]
      [] OTHER -> [start |-> s * (f + 1), factorial |-> f + 1]

\* lines 151-166: the growth step, from (method, start, value, factorial)
Growth(m, s, v, f) ==
    CASE m = STRESS_PRIME_METHOD_INC -> [start |-> v + 2, factorial |-> f]
      [] m = STRESS_PRIME_METHOD_PWR2 -> [start |-> s * 2, factorial |-> f]
      [] m = STRESS_PRIME_METHOD_PWR10 -> [start |-> s * 10, factorial |-> f]
      [] OTHER -> [start |-> s * f, factorial |-> f + 1]

\* line 170: the test that gates a progress line
ProgressDue(enabled, t, threshold) ==
    enabled /\ t >= threshold

\* mutants of line 104: the jump on the first signal, and on the third
JumpNow_First(c) ==
    c > 0

JumpNow_Third(c) ==
    c > 2

\* line 104: the test that gates the handler's siglongjmp
JumpNow(c) ==
    c > 1

\* mutant of line 178: mpz_clears whatever jumped says
ReleaseAllowed_Always(j) ==
    TRUE

\* line 178: the test that gates mpz_clears
ReleaseAllowed(j) ==
    ~j

\* mutant of line 190: the division without the test of duration
Rate_NoGuard(n, d) ==
    [num |-> n, den |-> d]

\* line 190: the rate, as the fraction num/den
Rate(n, d) ==
    IF d > 0 THEN [num |-> n, den |-> d] ELSE [num |-> 0, den |-> 1]

LoopPcs == {"t1", "nextprime", "t2", "accum", "grow", "bogo_inc", "sizeinbase",
            "progress", "pr_inf", "continue"}
TickPcs == {"time_init", "nextprime", "grow"}
FinishPcs == {"finish", "clears", "summary", "metrics", "return"}

(***************************************************************************)
(* The worker, stress_prime(), one step per statement.                     *)
(***************************************************************************)
\* lines 118-130: settings, mpz_inits, the instance test, start = 1, factorial = 2
Setup ==
    /\ pc = "setup"
    /\ prime_method' = MethodSelected(opt_method, prime_method)
    /\ prime_progress' = ProgressEnabled(opt_progress, instance)
    /\ start' = 1
    /\ factorial' = 2
    /\ value' = 0
    /\ pc' = "sigsetjmp"
    /\ UNCHANGED <<settings, bogo, timing, digits, ops, rate, jumped, sigstate,
                   now, ret, logs, released, hist>>

\* lines 132-133: jumped = false; sigsetjmp saves the context and returns 0
SigSetJmp ==
    /\ pc = "sigsetjmp"
    /\ jumped' = FALSE
    /\ jmp_set' = TRUE
    /\ pc' = "time_init"
    /\ UNCHANGED <<settings, bogo, prime_method, prime_progress, mpzs, timing,
                   digits, ops, rate, count, handler_installed, continue_flag,
                   now, ret, logs, released, hist>>

\* mutant of line 134: jumped left as it was
JumpLanding_NoFlag ==
    /\ pc = "landing"
    /\ pc' = "finish"
    /\ UNCHANGED <<settings, bogo, prime_method, prime_progress, mpzs, timing,
                   digits, ops, rate, jumped, sigstate, now, ret, logs,
                   released, hist>>

\* lines 133-136: sigsetjmp returns 1 after siglongjmp; jumped = true; goto finish
JumpLanding ==
    /\ pc = "landing"
    /\ jumped' = TRUE
    /\ pc' = "finish"
    /\ UNCHANGED <<settings, bogo, prime_method, prime_progress, mpzs, timing,
                   digits, ops, rate, sigstate, now, ret, logs, released, hist>>

\* line 138
ProgressInit ==
    /\ pc = "time_init"
    /\ t_progress_secs' = now + STRESS_PRIME_PROGRESS_INC_SECS
    /\ pc' = "sighandler"
    /\ UNCHANGED <<settings, bogo, prime_method, prime_progress, mpzs, duration,
                   t1, t2, digits, ops, rate, jumped, sigstate, now, ret, logs,
                   released, hist>>

\* mutant of lines 140-141: the result of stress_sighandler not tested
SigHandler_IgnoreFailure ==
    /\ pc = "sighandler"
    /\ handler_installed' \in BOOLEAN
    /\ pc' = "t1"
    /\ UNCHANGED <<settings, bogo, prime_method, prime_progress, mpzs, timing,
                   digits, ops, rate, jumped, count, jmp_set, continue_flag,
                   now, ret, logs, released, hist>>

\* mutant of lines 140-143: the loop entered at its test, as a while loop
SigHandler_CheckFirst ==
    /\ pc = "sighandler"
    /\ \/ /\ handler_installed' = TRUE
          /\ pc' = "continue"
          /\ ret' = ret
       \/ /\ handler_installed' = FALSE
          /\ pc' = "returned"
          /\ ret' = "EXIT_NO_RESOURCE"
    /\ UNCHANGED <<settings, bogo, prime_method, prime_progress, mpzs, timing,
                   digits, ops, rate, jumped, count, jmp_set, continue_flag,
                   now, logs, released, hist>>

\* lines 140-141: stress_sighandler installs the handler, or fails
SigHandler ==
    /\ pc = "sighandler"
    /\ \/ /\ handler_installed' = TRUE
          /\ pc' = "t1"
          /\ ret' = ret
       \/ /\ handler_installed' = FALSE
          /\ pc' = "returned"
          /\ ret' = "EXIT_NO_RESOURCE"
    /\ UNCHANGED <<settings, bogo, prime_method, prime_progress, mpzs, timing,
                   digits, ops, rate, jumped, count, jmp_set, continue_flag,
                   now, logs, released, hist>>

\* line 146
TimeT1 ==
    /\ pc = "t1"
    /\ t1' = now
    /\ pc' = "nextprime"
    /\ UNCHANGED <<settings, bogo, prime_method, prime_progress, mpzs, duration,
                   t_progress_secs, t2, digits, ops, rate, jumped, sigstate,
                   now, ret, logs, released, hist>>

\* line 147: mpz_nextprime(value, start) returns
NextPrimeReturn ==
    /\ pc = "nextprime"
    /\ value' = mpz_nextprime(start)
    /\ hist' = [hist EXCEPT !.searches = @ + 1]
    /\ pc' = "t2"
    /\ UNCHANGED <<settings, bogo, prime_method, prime_progress, start,
                   factorial, timing, digits, ops, rate, jumped, sigstate, now,
                   ret, logs, released>>

\* line 148
TimeT2 ==
    /\ pc = "t2"
    /\ t2' = now
    /\ pc' = "accum"
    /\ UNCHANGED <<settings, bogo, prime_method, prime_progress, mpzs, duration,
                   t_progress_secs, t1, digits, ops, rate, jumped, sigstate,
                   now, ret, logs, released, hist>>

\* mutant of line 149: the start of the search not subtracted
AccumDuration_NoSubtract ==
    /\ pc = "accum"
    /\ duration' = duration + t2
    /\ pc' = "grow"
    /\ UNCHANGED <<settings, bogo, prime_method, prime_progress, mpzs,
                   t_progress_secs, t1, t2, digits, ops, rate, jumped,
                   sigstate, now, ret, logs, released, hist>>

\* line 149
AccumDuration ==
    /\ pc = "accum"
    /\ duration' = duration + (t2 - t1)
    /\ pc' = "grow"
    /\ UNCHANGED <<settings, bogo, prime_method, prime_progress, mpzs,
                   t_progress_secs, t1, t2, digits, ops, rate, jumped,
                   sigstate, now, ret, logs, released, hist>>

\* lines 151-166
Grow ==
    /\ pc = "grow"
    /\ LET g == Growth(prime_method, start, value, factorial)
       IN /\ start' = g.start
          /\ factorial' = g.factorial
    /\ pc' = "bogo_inc"
    /\ UNCHANGED <<settings, bogo, prime_method, prime_progress, value, timing,
                   digits, ops, rate, jumped, sigstate, now, ret, logs,
                   released, hist>>

\* mutant of line 167: the counter stepped by two
BogoInc_Twice ==
    /\ pc = "bogo_inc"
    /\ bogo' = bogo + 2
    /\ pc' = "sizeinbase"
    /\ UNCHANGED <<settings, prime_method, prime_progress, mpzs, timing, digits,
                   ops, rate, jumped, sigstate, now, ret, logs, released, hist>>

\* line 167
BogoInc ==
    /\ pc = "bogo_inc"
    /\ bogo' = bogo + 1
    /\ pc' = "sizeinbase"
    /\ UNCHANGED <<settings, prime_method, prime_progress, mpzs, timing, digits,
                   ops, rate, jumped, sigstate, now, ret, logs, released, hist>>

\* mutant of line 168: the size of start, not of value
SizeInBase_OfStart ==
    /\ pc = "sizeinbase"
    /\ digits' = mpz_sizeinbase10(start)
    /\ pc' = "progress"
    /\ UNCHANGED <<settings, bogo, prime_method, prime_progress, mpzs, timing,
                   ops, rate, jumped, sigstate, now, ret, logs, released, hist>>

\* line 168
SizeInBase ==
    /\ pc = "sizeinbase"
    /\ digits' = mpz_sizeinbase10(value)
    /\ pc' = "progress"
    /\ UNCHANGED <<settings, bogo, prime_method, prime_progress, mpzs, timing,
                   ops, rate, jumped, sigstate, now, ret, logs, released, hist>>

\* mutant of line 171: the threshold reset from the time of the search
ProgressCheck_ResetFromNow ==
    /\ pc = "progress"
    /\ IF ProgressDue(prime_progress, t2, t_progress_secs)
       THEN /\ t_progress_secs' = t2 + STRESS_PRIME_PROGRESS_INC_SECS
            /\ hist' = [hist EXCEPT !.fired = @ + 1]
            /\ pc' = "pr_inf"
       ELSE /\ t_progress_secs' = t_progress_secs
            /\ hist' = hist
            /\ pc' = "continue"
    /\ UNCHANGED <<settings, bogo, prime_method, prime_progress, mpzs, duration,
                   t1, t2, digits, ops, rate, jumped, sigstate, now, ret, logs,
                   released>>

\* lines 170-171: the test, and the threshold moved on when it passes
ProgressCheck ==
    /\ pc = "progress"
    /\ IF ProgressDue(prime_progress, t2, t_progress_secs)
       THEN /\ t_progress_secs' = t_progress_secs + STRESS_PRIME_PROGRESS_INC_SECS
            /\ hist' = [hist EXCEPT !.fired = @ + 1]
            /\ pc' = "pr_inf"
       ELSE /\ t_progress_secs' = t_progress_secs
            /\ hist' = hist
            /\ pc' = "continue"
    /\ UNCHANGED <<settings, bogo, prime_method, prime_progress, mpzs, duration,
                   t1, t2, digits, ops, rate, jumped, sigstate, now, ret, logs,
                   released>>

\* lines 172-173: the progress line; t2, searches and value are kept with it
\* for the properties, the line itself holds the count and the digits
ProgressEmit ==
    /\ pc = "pr_inf"
    /\ progress_log' = Append(progress_log,
           [ops |-> bogo, digits |-> digits, t2 |-> t2,
            searches |-> hist.searches, value |-> value])
    /\ pc' = "continue"
    /\ UNCHANGED <<settings, bogo, prime_method, prime_progress, mpzs, timing,
                   digits, ops, rate, jumped, sigstate, now, ret, summary_log,
                   metrics_log, released, hist>>

\* line 175
ContinueCheck ==
    /\ pc = "continue"
    /\ pc' = IF stress_continue THEN "t1" ELSE "finish"
    /\ UNCHANGED <<settings, bogo, prime_method, prime_progress, mpzs, timing,
                   digits, ops, rate, jumped, sigstate, now, ret, logs,
                   released, hist>>

\* lines 177-184: mpz_clears is entered unless jumped
Finish ==
    /\ pc = "finish"
    /\ IF ReleaseAllowed(jumped)
       THEN /\ released' = released + 1
            /\ pc' = "clears"
       ELSE /\ released' = released
            /\ pc' = "summary"
    /\ UNCHANGED <<settings, bogo, prime_method, prime_progress, mpzs, timing,
                   digits, ops, rate, jumped, sigstate, now, ret, logs, hist>>

\* line 183: mpz_clears returns
ClearsReturn ==
    /\ pc = "clears"
    /\ hist' = [hist EXCEPT !.cleared = @ + 1]
    /\ pc' = "summary"
    /\ UNCHANGED <<settings, bogo, prime_method, prime_progress, mpzs, timing,
                   digits, ops, rate, jumped, sigstate, now, ret, logs,
                   released>>

\* lines 186-188: the summary line; what the run had done is kept with it
Summary ==
    /\ pc = "summary"
    /\ ops' = bogo
    /\ summary_log' = Append(summary_log,
           [ops |-> bogo, digits |-> digits, jumped |-> jumped,
            searches |-> hist.searches, value |-> value,
            stale |-> hist.stale])
    /\ pc' = "metrics"
    /\ UNCHANGED <<settings, bogo, prime_method, prime_progress, mpzs, timing,
                   digits, rate, jumped, sigstate, now, ret, progress_log,
                   metrics_log, released, hist>>

\* lines 190-191
Metrics ==
    /\ pc = "metrics"
    /\ rate' = Rate(ops, duration)
    /\ metrics_log' = Append(metrics_log, Rate(ops, duration))
    /\ pc' = "return"
    /\ UNCHANGED <<settings, bogo, prime_method, prime_progress, mpzs, timing,
                   digits, ops, jumped, sigstate, now, ret, progress_log,
                   summary_log, released, hist>>

\* lines 193-195
Return ==
    /\ pc = "return"
    /\ ret' = "EXIT_SUCCESS"
    /\ pc' = "returned"
    /\ UNCHANGED <<settings, bogo, prime_method, prime_progress, mpzs, timing,
                   digits, ops, rate, jumped, sigstate, now, logs, released,
                   hist>>

(***************************************************************************)
(* The environment: SIGALRM and the clock.                                 *)
(***************************************************************************)
\* where the worker is when a signal arrives
PcClass ==
    CASE pc = "nextprime" -> "search"
      [] pc \in LoopPcs -> "loop"
      [] pc \in FinishPcs \cup {"landing"} -> "finish"
      [] OTHER -> pc

\* history of one run of the handler: where the worker was, and the number
\* of the iteration in progress (0 outside the loop); of a run that jumps,
\* also what the worker had computed
SignalRecord(jump) ==
    [at |-> PcClass,
     jump |-> jump,
     iter |-> IF pc \in {"t1", "nextprime", "t2", "accum", "grow", "bogo_inc"}
              THEN bogo + 1
              ELSE IF pc \in LoopPcs THEN bogo ELSE 0,
     snap |-> IF jump
              THEN <<start, factorial, bogo, digits, hist.searches>>
              ELSE <<>>]

\* lines 97-106: the handler, run on a SIGALRM once it is installed.  The
\* jump lands in sigsetjmp (line 133).  When stress_prime() has returned the
\* jump is into a dead frame, which is undefined: the process stops, or
\* the code after the label runs on whatever the frame's slots now hold.
stress_prime_alarm_handler ==
    /\ handler_installed
    /\ pc # "crashed"
    /\ Len(hist.signals) < MaxSignals
    /\ continue_flag' = FALSE
    /\ count' = count + 1
    /\ LET jump == JumpNow(count + 1)
           stale == jump /\ pc = "returned"
       IN /\ hist' = [hist EXCEPT
                !.signals = Append(@, SignalRecord(jump)),
                !.stale = @ \/ stale]
          /\ IF ~jump
             THEN /\ pc' = pc
                  /\ UNCHANGED <<digits, duration>>
             ELSE IF ~stale
             THEN /\ pc' = "landing"
                  /\ UNCHANGED <<digits, duration>>
             ELSE \/ /\ pc' = "crashed"
                     /\ UNCHANGED <<digits, duration>>
                  \/ /\ pc' = "landing"
                     /\ \/ UNCHANGED <<digits, duration>>
                        \/ digits' = 0 /\ duration' = 0
    /\ UNCHANGED <<settings, bogo, prime_method, prime_progress, mpzs,
                   t_progress_secs, t1, t2, ops, rate, jumped, jmp_set,
                   handler_installed, now, ret, logs, released>>

\* a SIGALRM before line 140: the harness's own handler clears the flag
AlarmBeforeInstall ==
    /\ ~handler_installed
    /\ pc \notin {"returned", "crashed"}
    /\ continue_flag
    /\ continue_flag' = FALSE
    /\ UNCHANGED <<pc, settings, bogo, prime_method, prime_progress, mpzs,
                   timing, digits, ops, rate, jumped, count, jmp_set,
                   handler_installed, now, ret, logs, released, hist>>

\* the clock advances.  The clock is read at lines 138, 146 and 148 only, so
\* time that passes anywhere between two reads is time that passes before
\* the second: it advances before line 138, during the search of line 147
\* and during the arithmetic of lines 151-166.
Tick ==
    /\ pc \in TickPcs
    /\ \E d \in TickSteps :
          /\ now + d <= MaxTime
          /\ now' = now + d
          /\ hist' = IF pc = "nextprime"
                     THEN [hist EXCEPT !.search_time = @ + d]
                     ELSE hist
    /\ UNCHANGED <<pc, settings, bogo, prime_method, prime_progress, mpzs,
                   timing, digits, ops, rate, jumped, sigstate, ret, logs,
                   released>>

\* the steps of the worker other than the return of a search
WorkerStep ==
    \/ Setup \/ SigSetJmp \/ JumpLanding \/ ProgressInit \/ SigHandler
    \/ TimeT1 \/ TimeT2 \/ AccumDuration \/ Grow \/ BogoInc \/ SizeInBase
    \/ ProgressCheck \/ ProgressEmit \/ ContinueCheck
    \/ Finish \/ ClearsReturn \/ Summary \/ Metrics \/ Return

Next ==
    \/ WorkerStep
    \/ NextPrimeReturn
    \/ stress_prime_alarm_handler
    \/ AlarmBeforeInstall
    \/ Tick

Spec == Init /\ [][Next]_vars


\* The worker's process is scheduled: every step of stress_prime() that is
\* enabled is eventually taken, except the return of mpz_nextprime, which
\* may take for ever.  No signal is ever promised.
LiveSpec == Init /\ [][Next]_vars /\ WF_vars(WorkerStep)

\* The runs in which no SIGALRM arrives and the clock stands still, with
\* operation budgets up to MaxGrowthOps: the worker's steps alone, for the
\* properties of the sequences of candidates and primes.
GrowthInit ==
    /\ pc = "setup"
    /\ opt_method \in Methods \cup {-1}
    /\ opt_progress \in BOOLEAN
    /\ instance \in Instances
    /\ max_ops \in 1..MaxGrowthOps
    /\ bogo = 0
    /\ prime_method = STRESS_PRIME_METHOD_INC
    /\ prime_progress = FALSE
    /\ start = 0 /\ value = 0 /\ factorial = 0
    /\ duration = 0
    /\ digits = 1
    /\ t_progress_secs = 0 /\ t1 = 0 /\ t2 = 0 /\ ops = 0
    /\ rate = [num |-> 0, den |-> 1]
    /\ jumped = FALSE
    /\ count = 0
    /\ jmp_set = FALSE
    /\ handler_installed = FALSE
    /\ continue_flag = TRUE
    /\ now = 0
    /\ ret = "none"
    /\ progress_log = <<>>
    /\ summary_log = <<>>
    /\ metrics_log = <<>>
    /\ released = 0
    /\ hist = [signals |-> <<>>, searches |-> 0, cleared |-> 0, stale |-> FALSE,
               search_time |-> 0, fired |-> 0]

GrowthNext ==
    \/ Setup \/ SigSetJmp \/ ProgressInit \/ SigHandler
    \/ TimeT1 \/ NextPrimeReturn \/ TimeT2 \/ AccumDuration \/ Grow
    \/ BogoInc \/ SizeInBase \/ ProgressCheck \/ ContinueCheck
    \/ Finish \/ ClearsReturn \/ Summary \/ Metrics \/ Return

GrowthSpec == GrowthInit /\ [][GrowthNext]_vars

(***************************************************************************)
(* Properties.                                                             *)
(***************************************************************************)
NSignals == Len(hist.signals)
\* the worker is past the loop and has not jumped into a dead frame
AfterLoopPcs == FinishPcs \cup {"returned"}

\* C1: when exactly one SIGALRM has reached the handler, and it arrived
\* while the loop was executing, the continue flag is false, the worker
\* never leaves the normal path (no landing of a jump, jumped stays false),
\* the loop ends at the continue check of the iteration that was in progress
\* (its prime is counted: the counter and the searches stand at that
\* iteration's number), mpz_clears is called and returns before the summary,
\* and one summary line and one rate are emitted before the return.
C1_FirstSignalStopsLoop ==
    (NSignals = 1 /\ hist.signals[1].at \in {"loop", "search"}) =>
        LET k == hist.signals[1].iter
        IN /\ ~continue_flag
           /\ ~jumped
           /\ count = 1
           /\ pc \in LoopPcs \cup AfterLoopPcs
           /\ pc \in LoopPcs =>
                 /\ bogo \in {k - 1, k}
                 /\ pc \in {"t1", "nextprime", "t2", "accum", "grow", "bogo_inc"}
                       <=> bogo = k - 1
           /\ pc \in AfterLoopPcs => bogo = k /\ hist.searches = k
           /\ pc = "finish" => released = 0
           /\ pc = "clears" => released = 1 /\ hist.cleared = 0
           /\ pc \in {"summary", "metrics", "return", "returned"} =>
                 released = 1 /\ hist.cleared = 1
           /\ pc \in {"finish", "clears", "summary"} =>
                 summary_log = <<>> /\ metrics_log = <<>>
           /\ pc \in {"metrics", "return", "returned"} =>
                 /\ Len(summary_log) = 1
                 /\ summary_log[1].ops = k
                 /\ ~summary_log[1].jumped
           /\ pc = "metrics" => metrics_log = <<>>
           /\ pc \in {"return", "returned"} =>
                 metrics_log = <<Rate(k, duration)>>
           /\ pc = "returned" => ret = "EXIT_SUCCESS"

\* C1 witness: a run with a budget of 2 that one signal, delivered during the
\* first search, ended after one counted prime
C1_Witness ==
    /\ pc = "returned"
    /\ NSignals = 1
    /\ hist.signals[1].at = "search"
    /\ hist.signals[1].iter = 1
    /\ max_ops = 2
    /\ bogo = 1
    /\ hist.cleared = 1
    /\ Len(metrics_log) = 1

\* C2: when the second SIGALRM reaches the handler while the worker is in
\* mpz_nextprime, the handler jumps; from then on the worker is at the
\* landing of the jump or past the loop, start, factorial, the counter, the
\* digit length and the number of completed searches stay what they were
\* when the signal arrived, jumped is true once line 134 has run,
\* mpz_clears is never called, and a summary line (with jumped true) and a
\* rate are emitted before the return.
C2_SecondSignalInSearchJumps ==
    (NSignals >= 2 /\ hist.signals[2].at = "search" /\ ~hist.stale) =>
        /\ hist.signals[2].jump
        /\ pc \in {"landing", "finish", "summary", "metrics", "return", "returned"}
        /\ pc \in {"finish", "summary", "metrics", "return", "returned"} => jumped
        /\ <<start, factorial, bogo, digits, hist.searches>> = hist.signals[2].snap
        /\ released = 0
        /\ pc \in {"metrics", "return", "returned"} =>
              /\ Len(summary_log) >= 1
              /\ \A i \in 1..Len(summary_log) :
                    /\ summary_log[i].jumped
                    /\ summary_log[i].ops = hist.signals[2].snap[3]
        /\ pc \in {"return", "returned"} => Len(metrics_log) >= 1
        /\ pc = "returned" => ret = "EXIT_SUCCESS"

\* C2 witness: the second signal arrived during the second search, and the
\* worker returned with one prime counted
C2_Witness ==
    /\ pc = "returned"
    /\ NSignals = 2
    /\ hist.signals[2].at = "search"
    /\ hist.signals[2].iter = 2
    /\ bogo = 1
    /\ jumped
    /\ released = 0
    /\ Len(summary_log) = 1
    /\ Len(metrics_log) = 1


\* the rate has been handed to stress_metrics_set (line 191)
Reported == Len(metrics_log) >= 1

\* C3: once the handler has run twice the rate is eventually reported, even
\* if a search never returns; in a run whose searches all return, once the
\* handler has run once the rate is eventually reported.
C3_TwoStageTermination ==
    /\ (NSignals >= 2) ~> Reported
    /\ ([]<>(pc # "nextprime")) => ((NSignals >= 1) ~> Reported)

\* C3 witness: the second signal found the worker in a search that had
\* not returned, and the rate was reported all the same
C3_Witness ==
    /\ NSignals = 2
    /\ hist.signals[1].at = "search"
    /\ hist.signals[2].at = "search"
    /\ hist.searches = 0
    /\ Reported
    /\ pc = "returned"

\* C4: any two progress lines of a run have search-completion times (t2) at
\* least STRESS_PRIME_PROGRESS_INC_SECS apart.
C4_ProgressSpacing ==
    \A i, j \in 1..Len(progress_log) :
        i < j => progress_log[j].t2 - progress_log[i].t2
                     >= STRESS_PRIME_PROGRESS_INC_SECS

\* C5: mpz_clears is entered only from line 178 with jumped false, never
\* once jumped is true (jumped, once true, stays true), and at most once.
C5_ReleaseSafety ==
    /\ [](released <= 1)
    /\ [][released' # released =>
              /\ pc = "finish"
              /\ ~jumped
              /\ released = 0
              /\ released' = 1
              /\ pc' = "clears"]_vars
    /\ [][jumped => jumped' /\ released' = released]_vars
    /\ [](pc = "clears" => released = 1 /\ ~jumped)

\* C5 witness: mpz_clears was called on the normal path, a later signal
\* forced the jump, and the finish phase ran again without a second call
C5_Witness ==
    /\ pc = "returned"
    /\ released = 1
    /\ jumped
    /\ Len(summary_log) = 2

\* C6: a worker whose instance index is greater than 0 has its progress
\* flag cleared from line 125 on and never logs a progress line.
C6_OnlyInstanceZeroReports ==
    instance > 0 =>
        /\ progress_log = <<>>
        /\ pc # "pr_inf"
        /\ pc \notin {"setup"} => ~prime_progress

\* C6 witness: instance 1 with the setting on finished an iteration whose
\* t2 had reached the threshold, and logged its summary but no progress line
C6_Witness ==
    /\ instance > 0
    /\ opt_progress
    /\ pc = "returned"
    /\ bogo >= 1
    /\ t2 >= t_progress_secs
    /\ progress_log = <<>>
    /\ Len(summary_log) = 1

\* C7: at the continue check the counter equals the number of searches
\* completed; elsewhere it is at most one behind; it starts at 0 and changes
\* only at line 167, by exactly one.
C7_OpsCountsIterations ==
    /\ [](pc = "continue" => bogo = hist.searches)
    /\ [](bogo <= hist.searches /\ hist.searches <= bogo + 1)
    /\ [](pc \in {"setup", "sigsetjmp", "time_init", "sighandler"} => bogo = 0)
    /\ [][bogo' # bogo =>
              /\ pc = "bogo_inc"
              /\ pc' = "sizeinbase"
              /\ bogo' = bogo + 1]_vars

\* C7 witness: the second iteration is at its continue check, two primes
\* found and counted
C7_Witness ==
    /\ pc = "continue"
    /\ hist.searches = 2
    /\ bogo = 2


\* a signal made the handler jump while the worker was in the loop
JumpedOutOfLoop ==
    \E i \in 1..NSignals :
        hist.signals[i].jump /\ hist.signals[i].at \in {"loop", "search"}

\* the line reports the digit count of the last prime a search returned and
\* a count equal to the number of primes found
LineExact(line) ==
    /\ line.searches >= 1
    /\ line.digits = mpz_sizeinbase10(line.value)
    /\ line.ops = line.searches

C9_CandidatesIncrease ==
    /\ [][pc = "grow" /\ pc' = "bogo_inc" => start' > start /\ start' >= 2]_vars
    /\ [][pc \notin {"setup", "grow"} => start' = start]_vars
    /\ [](pc \in {"sigsetjmp", "time_init", "sighandler"} => start = 1)
    /\ [](pc \in {"t1", "nextprime", "t2", "accum", "grow"} /\ bogo = 0
             => start = 1)
    /\ [](bogo >= 1 => start >= 2)

\* C9 witness: the factorial method after two growth steps: 1, 2, 6
C9_Witness ==
    /\ prime_method = STRESS_PRIME_METHOD_FACTORIAL
    /\ pc = "continue"
    /\ bogo = 2
    /\ start = 6

\* C10: under the increment method the growth step sets the candidate to
\* value + 2, where value is the prime the search of the same iteration
\* returned for the candidate the step replaces.
C10_IncrementIsPrimePlusTwo ==
    [][(pc = "grow" /\ pc' = "bogo_inc"
            /\ prime_method = STRESS_PRIME_METHOD_INC) =>
          /\ value = mpz_nextprime(start)
          /\ IsPrime(value)
          /\ start' = value + 2
          /\ value' = value]_vars

\* C10 witness: the second growth step of the increment method: the search
\* from 4 returned 5, the next candidate is 7
C10_Witness ==
    /\ prime_method = STRESS_PRIME_METHOD_INC
    /\ pc = "bogo_inc"
    /\ bogo = 1
    /\ value = 5
    /\ start = 7


RECURSIVE Pow(_, _)
\* b to the power n
Pow(b, n) ==
    IF n = 0 THEN 1 ELSE b * Pow(b, n - 1)

\* the growth steps done so far: one per counted iteration, and the one of
\* the iteration whose counter increment is next
GrowthSteps ==
    IF pc = "bogo_inc" THEN bogo + 1 ELSE bogo

\* C11: under the power-of-2 method the candidate after n growth steps is
\* 2^n and under the power-of-10 method it is 10^n (at the continue check of
\* the n-th iteration n growth steps have been done); the growth step
\* multiplies the candidate by 2, or by 10, whatever the search returned.
C11_PowersOfTwoAndTen ==
    /\ [](pc # "setup" /\ prime_method = STRESS_PRIME_METHOD_PWR2
             => start = Pow(2, GrowthSteps))
    /\ [](pc # "setup" /\ prime_method = STRESS_PRIME_METHOD_PWR10
             => start = Pow(10, GrowthSteps))
    /\ [](pc = "continue" /\ prime_method = STRESS_PRIME_METHOD_PWR2
             => start = Pow(2, bogo) /\ bogo = hist.searches)
    /\ [](pc = "continue" /\ prime_method = STRESS_PRIME_METHOD_PWR10
             => start = Pow(10, bogo) /\ bogo = hist.searches)
    /\ [][(pc = "grow" /\ pc' = "bogo_inc"
              /\ prime_method = STRESS_PRIME_METHOD_PWR2) => start' = 2 * start]_vars
    /\ [][(pc = "grow" /\ pc' = "bogo_inc"
              /\ prime_method = STRESS_PRIME_METHOD_PWR10) => start' = 10 * start]_vars

\* C11 witness: the power-of-10 method at the continue check of its fourth
\* iteration: the candidate is 10000
C11_Witness ==
    /\ prime_method = STRESS_PRIME_METHOD_PWR10
    /\ pc = "continue"
    /\ bogo = 4
    /\ value = 1009
    /\ start = 10000


\* the rate last handed to stress_metrics_set
LastRate == metrics_log[Len(metrics_log)]

\* C12: no rate is ever computed with a zero divisor; once line 191 has run
\* the rate reported is ops/duration when duration > 0 and 0 when duration
\* is 0, where ops is the counter read at line 186, on the normal and on
\* the forced path; 1000 operations in 10 time units give 100.
C12_RateComputation ==
    /\ \A i \in 1..Len(metrics_log) : metrics_log[i].den > 0
    /\ (pc = "return" \/ (pc = "returned" /\ ret = "EXIT_SUCCESS")) =>
          /\ Len(metrics_log) >= 1
          /\ LastRate = rate
          /\ ops = bogo
          /\ duration > 0 => LastRate = [num |-> ops, den |-> duration]
          /\ duration = 0 => LastRate = [num |-> 0, den |-> 1]
    /\ Rate(1000, 10).num = 100 * Rate(1000, 10).den

\* C12 witness: a forced exit after one counted prime found in no time:
\* the rate reported is 0
C12_Witness ==
    /\ pc = "returned"
    /\ jumped
    /\ ~hist.stale
    /\ duration = 0
    /\ ops = 1
    /\ LastRate.num = 0


\* C13: when stress_sighandler fails the worker returns EXIT_NO_RESOURCE at
\* once: the loop is entered only with the handler installed, and a run
\* that returned EXIT_NO_RESOURCE has made no search, counted nothing,
\* logged no progress or summary line and recorded no rate.
C13_RegistrationFailure ==
    /\ [](ret = "EXIT_NO_RESOURCE" =>
             /\ pc = "returned"
             /\ ~handler_installed
             /\ hist.searches = 0
             /\ bogo = 0
             /\ value = 0
             /\ progress_log = <<>>
             /\ summary_log = <<>>
             /\ metrics_log = <<>>)
    /\ [](pc \in LoopPcs \cup FinishPcs => handler_installed)
    /\ [](pc = "returned" /\ ~handler_installed => ret = "EXIT_NO_RESOURCE")
    /\ [][(pc = "sighandler" /\ pc' # pc /\ ~handler_installed') =>
              pc' = "returned" /\ ret' = "EXIT_NO_RESOURCE"]_vars

\* C13 witness: the registration failed and the worker has returned
C13_Witness ==
    /\ pc = "returned"
    /\ ret = "EXIT_NO_RESOURCE"
    /\ ~handler_installed
    /\ jmp_set
    /\ bogo = 0


\* C14: the duration is the time spent inside the searches whose time has
\* been added: it changes only at line 149, by t2 - t1 of the search just
\* made; a step on which the clock advances leaves it alone; after line 149
\* and up to the next search it equals the time that passed inside the
\* searches, whatever time passed in the arithmetic, the counting, the
\* reporting or the continue check; during a search it is short of that
\* time by the part of the search in progress.
C14_DurationIsSearchTime ==
    /\ [][duration' # duration =>
              \/ /\ pc = "accum" /\ pc' = "grow"
                 /\ duration' = duration + (t2 - t1)
                 /\ t2 - t1 = hist.search_time - duration
              \/ hist'.stale]_vars
    /\ [][now' # now => duration' = duration /\ pc' = pc]_vars
    /\ [](duration <= hist.search_time)
    /\ [](pc \in LoopPcs \ {"nextprime", "t2", "accum"} =>
             duration = hist.search_time)
    /\ [](pc \in {"nextprime", "t2"} =>
             hist.search_time = duration + (now - t1))
    /\ [](pc = "accum" => hist.search_time = duration + (t2 - t1))
    /\ [](pc \in AfterLoopPcs /\ ~JumpedOutOfLoop /\ ~hist.stale =>
             duration = hist.search_time)

\* C14 witness: a search took 60 seconds and the arithmetic after it 75; the
\* duration holds the 60
C14_Witness ==
    /\ pc = "t1"
    /\ bogo = 1
    /\ t1 = 0 /\ t2 = 60
    /\ now = 135
    /\ duration = 60
    /\ hist.search_time = 60


\* C15: the loop is left in two ways only: at the test of line 175, when
\* stress_continue is false, and by the handler's jump.  The loop is entered
\* at the top of its body (line 146), the test of line 175 goes on to the
\* next iteration when stress_continue holds, and a worker that is past the
\* loop without having been thrown out of it has completed at least one
\* iteration: one search made and one prime counted, also when the flag
\* was cleared before the loop was entered.
C15_LoopExits ==
    /\ [][(pc \in LoopPcs /\ pc' \notin LoopPcs) =>
              \/ pc = "continue" /\ pc' = "finish" /\ ~stress_continue
                    /\ bogo >= 1 /\ hist.searches >= 1 /\ count' = count
              \/ pc' = "landing" /\ count' = count + 1 /\ JumpNow(count')]_vars
    /\ [][(pc \notin LoopPcs /\ pc' \in LoopPcs) =>
              pc = "sighandler" /\ pc' = "t1" /\ bogo = 0]_vars
    /\ [][(pc = "continue" /\ pc' # pc /\ pc' # "landing") =>
              pc' = (IF stress_continue THEN "t1" ELSE "finish")]_vars
    /\ [](pc \in AfterLoopPcs /\ handler_installed /\ ~JumpedOutOfLoop
            /\ ~hist.stale =>
             bogo >= 1 /\ hist.searches >= 1)

\* C15 witness: the flag was cleared before the handler was installed, no
\* signal reached the handler, and the worker returned with one prime
\* counted of the two it was allowed
C15_Witness ==
    /\ pc = "returned"
    /\ ret = "EXIT_SUCCESS"
    /\ NSignals = 0
    /\ ~continue_flag
    /\ max_ops = 2
    /\ bogo = 1
    /\ hist.searches = 1
    /\ ~jumped


\* C16 (as claimed, the threshold moving only with a line): outside the
\* call of pr_inf itself, the threshold has advanced as many times as lines
\* have been emitted.
C16_ThresholdMovesOnlyWithLine ==
    pc # "pr_inf" => hist.fired = Len(progress_log)

\* C16 (amended): the threshold is set to the time of line 138 plus 60 and
\* changes after that only at the test of line 170, when progress is
\* enabled and t2 has reached it, by exactly 60; the test goes to pr_inf if
\* and only if progress is enabled and t2 >= threshold; a line is appended
\* only by pr_inf, one at a time, and the lines belong to different
\* iterations.  The line follows the advance unless the handler's jump
\* takes the worker out of the loop first: the advances are the lines, or
\* one more, and are the lines in every iteration that reaches line 175 and
\* after a loop left at line 175.
C16_ThresholdEvolution ==
    /\ [][t_progress_secs' # t_progress_secs =>
              \/ /\ pc = "time_init"
                 /\ t_progress_secs' = now + 60
              \/ /\ pc = "progress" /\ pc' = "pr_inf"
                 /\ prime_progress /\ t2 >= t_progress_secs
                 /\ t_progress_secs' = t_progress_secs + 60]_vars
    /\ [][(pc = "progress" /\ pc' \notin {"progress", "landing"}) =>
              /\ (pc' = "pr_inf") <=> (prime_progress /\ t2 >= t_progress_secs)
              /\ (pc' = "continue") <=> ~(prime_progress /\ t2 >= t_progress_secs)
              /\ (pc' = "pr_inf") <=> (t_progress_secs' # t_progress_secs)]_vars
    /\ [][progress_log' # progress_log =>
              /\ pc = "pr_inf" /\ pc' = "continue"
              /\ Len(progress_log') = Len(progress_log) + 1
              /\ progress_log'[Len(progress_log')].t2 >= t_progress_secs - 60
              /\ prime_progress]_vars
    /\ [][(pc = "pr_inf" /\ pc' \notin {"pr_inf", "landing"}) =>
              progress_log' # progress_log]_vars
    /\ [](\A i, j \in 1..Len(progress_log) :
             i < j => progress_log[i].searches < progress_log[j].searches)
    /\ [](hist.fired \in {Len(progress_log), Len(progress_log) + 1})
    /\ [](pc = "pr_inf" => hist.fired = Len(progress_log) + 1)
    /\ [](pc \in LoopPcs \ {"pr_inf"} => hist.fired = Len(progress_log))
    /\ [](pc \in AfterLoopPcs /\ ~JumpedOutOfLoop /\ ~hist.stale =>
             hist.fired = Len(progress_log))

\* C16 witness: the threshold was set to 60 at time 0, the first search
\* ended at 135, and two iterations have each advanced the threshold by 60
\* and emitted a line
C16_Witness ==
    /\ pc = "continue"
    /\ now = 135
    /\ t_progress_secs = 180
    /\ hist.fired = 2
    /\ Len(progress_log) = 2
    /\ progress_log[1].t2 = 135


RECURSIVE Fact(_)
Fact(n) ==
    IF n = 0 THEN 1 ELSE n * Fact(n - 1)

\* C17: under the factorial method the growth step sets start' = start *
\* factorial and factorial' = factorial + 1, from start = 1 and factorial =
\* 2, so after n growth steps the candidate is (n+1)! and the multiplier is
\* n + 2; under the three other methods the multiplier stays 2.
C17_FactorialGrowth ==
    /\ [](pc # "setup" /\ prime_method = STRESS_PRIME_METHOD_FACTORIAL =>
             /\ start = Fact(GrowthSteps + 1)
             /\ factorial = GrowthSteps + 2)
    /\ [](pc = "continue" /\ prime_method = STRESS_PRIME_METHOD_FACTORIAL =>
             /\ start = Fact(bogo + 1)
             /\ factorial = bogo + 2
             /\ bogo = hist.searches)
    /\ [](pc = "sigsetjmp" => start = 1 /\ factorial = 2)
    /\ [](pc # "setup" /\ prime_method # STRESS_PRIME_METHOD_FACTORIAL =>
             factorial = 2)
    /\ [][(pc = "grow" /\ pc' = "bogo_inc"
              /\ prime_method = STRESS_PRIME_METHOD_FACTORIAL) =>
              start' = start * factorial /\ factorial' = factorial + 1]_vars
    /\ [][(pc # "setup" /\ prime_method # STRESS_PRIME_METHOD_FACTORIAL) =>
              factorial' = factorial]_vars

\* C17 witness: the factorial method at the continue check of its fourth
\* iteration: the candidate is 5! and the multiplier 6
C17_Witness ==
    /\ prime_method = STRESS_PRIME_METHOD_FACTORIAL
    /\ pc = "continue"
    /\ bogo = 4
    /\ start = 120
    /\ factorial = 6
    /\ value = 29


\* C18: in a run that has not jumped into a returned frame, whatever the
\* signals, at most one summary line and one rate are emitted, and a
\* worker that returned EXIT_SUCCESS has emitted exactly one of each.
C18_SummaryAndMetricOnce ==
    ~hist.stale =>
        /\ Len(summary_log) <= 1
        /\ Len(metrics_log) <= 1
        /\ (pc = "returned" /\ ret = "EXIT_SUCCESS") =>
               Len(summary_log) = 1 /\ Len(metrics_log) = 1


\* C19: every jump the handler takes is taken after sigsetjmp has saved the
\* context (line 133) and before stress_prime() has returned: no run of the
\* handler jumps into a returned frame.
C19_JumpOnlyWhileTargetValid ==
    /\ ~hist.stale
    /\ \A i \in 1..NSignals :
          hist.signals[i].jump =>
              hist.signals[i].at \in {"search", "loop", "finish"}
    /\ pc # "crashed"


\* C20: under each of the four methods every search returns a prime greater
\* than the candidate it was given and greater than the prime the search
\* before it returned (the growth step leaves the candidate at or above
\* that prime); value is written by the search only, so the primes counted
\* in one run are all different.
C20_PrimesStrictlyIncrease ==
    /\ [][(pc = "nextprime" /\ pc' = "t2") =>
              /\ IsPrime(value')
              /\ value' > start
              /\ value' > value
              /\ hist'.searches = hist.searches + 1]_vars
    /\ [][value' # value => pc = "nextprime" /\ pc' = "t2"]_vars
    /\ [](hist.searches >= 1 => IsPrime(value))
    /\ [](pc \in {"t1", "nextprime"} => value <= start)

\* C20 witness: the fifth search of a run has returned, under a method that
\* multiplies the candidate
C20_Witness ==
    /\ pc = "t2"
    /\ hist.searches = 5
    /\ bogo = 4
    /\ prime_method = STRESS_PRIME_METHOD_PWR2
    /\ start = 16
    /\ value = 17

=============================================================================
